---- MODULE Spec2Model ----
(***************************************************************************)
(* A model of straico_api/client.py: StraicoClient.chat with its request   *)
(* builder, its failure classifier, the catalog fetcher get_models and the *)
(* suggestion engine find_similar_models, run against a transport that may *)
(* answer every request in any way.                                        *)
(*                                                                         *)
(* Python strings that the code searches, compares or lower-cases are      *)
(* sequences of one-character strings; Python dicts are functions whose    *)
(* domain is the set of keys; an Optional value is NoneVal or Some(x).     *)
(***************************************************************************)
EXTENDS Integers, Sequences, FiniteSets, TLC

VARIABLES
    client,           \* the StraicoClient object: api_key, api_version, base_url, headers
    pc,               \* where the current chat call stands
    args,             \* the arguments of the current chat call
    payload,          \* chat's local payload
    animation,        \* chat's LoadingAnimation: its running flag and whether its
                      \* thread is alive or has terminated
    response,         \* the local response of chat and of get_models (unbound until
                      \* requests.post / requests.get returns)
    api_error,        \* chat's local api_error
    requested_model,  \* chat's local requested_model
    error_msg,        \* chat's local error_msg
    models_response,  \* find_similar_models's local models_response
    network,          \* every request handed to the transport by the current call
    result,           \* what chat returned
    raised,           \* the exception that left chat, if one did
    search,           \* the arguments of the current find_similar_models call
    outcome,          \* what get_models or find_similar_models, called directly,
                      \* returned or raised
    previous,         \* the last completed find_similar_models call since the last
                      \* chat call: its arguments, its catalog and its outcome
    cli,              \* the command line main is working on; NoneVal when a
                      \* library caller built the client and once main has built it
    earlier           \* an earlier chat call on this client as its caller and the
                      \* transport saw it, kept to compare a later call with

vars == <<client, pc, args, payload, animation, response, api_error,
          requested_model, error_msg, models_response, network, result, raised,
          search, outcome, previous, cli, earlier>>

-----------------------------------------------------------------------------
(* Optional values and dicts *)

NoneVal == [some |-> FALSE]

Some(x) == [some |-> TRUE, val |-> x]

\* d.get(k, default)
Get(d, k, default) == IF k \in DOMAIN d THEN d[k] ELSE default

EmptyDict == [k \in {} |-> TRUE]

-----------------------------------------------------------------------------
(* Strings *)

\* needle in hay
Contains(hay, needle) ==
    \E i \in 0..(Len(hay) - Len(needle)) :
        SubSeq(hay, i + 1, i + Len(needle)) = needle

LowerChar(c) ==
    CASE c = "G" -> "g"
      [] c = "P" -> "p"
      [] c = "T" -> "t"
      [] c = "Z" -> "z"
      [] OTHER   -> c

\* s.lower()
Lower(s) == [i \in 1..Len(s) |-> LowerChar(s[i])]

\* the code point of a character of a model identifier
CodePoint(c) ==
    CASE c = "4" -> 52
      [] c = "G" -> 71
      [] c = "Z" -> 90
      [] c = "b" -> 98
      [] c = "d" -> 100
      [] c = "g" -> 103
      [] c = "o" -> 111
      [] c = "z" -> 122

\* s < t for Python strings: the first differing character decides, a proper
\* prefix is smaller
RECURSIVE StrLess(_, _)
StrLess(s, t) ==
    IF t = <<>> THEN FALSE
    ELSE IF s = <<>> THEN TRUE
    ELSE IF s[1] # t[1] THEN CodePoint(s[1]) < CodePoint(t[1])
    ELSE StrLess(Tail(s), Tail(t))

DigitChar(d) ==
    CASE d = 0 -> "0" [] d = 1 -> "1" [] d = 2 -> "2" [] d = 3 -> "3"
      [] d = 4 -> "4" [] d = 5 -> "5" [] d = 6 -> "6" [] d = 7 -> "7"
      [] d = 8 -> "8" [] d = 9 -> "9"

RECURSIVE NatToStr(_)
NatToStr(n) ==
    IF n < 10 THEN <<DigitChar(n)>>
    ELSE NatToStr(n \div 10) \o <<DigitChar(n % 10)>>

\* f"{n}" of an int
IntToStr(n) == IF n < 0 THEN <<"-">> \o NatToStr(-n) ELSE NatToStr(n)

\* "Model not found"
ModelNotFoundMarker ==
    <<"M", "o", "d", "e", "l", " ", "n", "o", "t", " ", "f", "o", "u", "n", "d">>

\* "Quantity must be between 1 and 4"
QuantityMessage ==
    <<"Q", "u", "a", "n", "t", "i", "t", "y", " ", "m", "u", "s", "t", " ",
      "b", "e", " ", "b", "e", "t", "w", "e", "e", "n", " ", "1", " ",
      "a", "n", "d", " ", "4">>

\* f"Quantity must be between 1 and 4 (got {quantity})"
QuantityError(quantity) ==
    QuantityMessage \o <<" ", "(", "g", "o", "t", " ">> \o IntToStr(quantity) \o <<")">>

-----------------------------------------------------------------------------
(* The inputs of the model *)

QuantityMin == 1

QuantityMax == 4

ModelNotFoundStatus == 422

DefaultMaxSuggestions == 5

\* longest models list a caller passes
MaxModels == 2

\* longest chat catalog the service answers with
MaxCatalog == 2

ApiVersions == {"v0", "v1"}

Messages == {"hello"}

PricingMethods == {"quality", "balance", "budget"}

\* model identifiers callers ask for: "g4", "bd"
RequestIds == {<<"g", "4">>, <<"b", "d">>}

\* identifiers callers of find_similar_models search for: "g4", "G4"
SearchTerms == {<<"g", "4">>, <<"G", "4">>}

ModelArgs == {NoneVal} \cup {Some(m) : m \in RequestIds}

ModelsLists == UNION {[1..n -> RequestIds] : n \in 0..MaxModels}

ModelsArgs == {NoneVal} \cup {Some(l) : l \in ModelsLists}

QuantityArgs ==
    {NoneVal} \cup {Some(q) : q \in (QuantityMin - 1)..(QuantityMax + 1)}

\* the max_suggestions a caller of find_similar_models passes
MaxSuggestionsArgs == {0, 1, 2, DefaultMaxSuggestions}

\* the --api-version option on the command line, if any
ApiVersionOptions == {NoneVal} \cup {Some(v) : v \in ApiVersions}

-----------------------------------------------------------------------------
(* Request builder: chat, lines 164-192 *)

ModelsGiven(models) == models.some /\ Len(models.val) > 0

ModelGiven(model) == model.some /\ model.val # <<>>

PayloadBase(message) == [message |-> message, replace_failed_models |-> TRUE]

\* SmartSelector that forgets the quantity under v1
SmartSelectorNoQuantity(api_version, pricing_method, quantity) ==
    IF api_version = "v1"
    THEN [quantity |-> 1, pricing_method |-> pricing_method]
    ELSE pricing_method

SmartSelector(api_version, pricing_method, quantity) ==
    IF api_version = "v1" /\ quantity.some /\ quantity.val # 0 /\ quantity.val > 1
    THEN [quantity |-> quantity.val, pricing_method |-> pricing_method]
    ELSE IF api_version = "v1"
    THEN [quantity |-> 1, pricing_method |-> pricing_method]
    ELSE pricing_method

\* SingleModelField that sends the scalar field under both schema versions
SingleModelFieldScalar(api_version, model) == "model" :> model

SingleModelField(api_version, model) ==
    IF api_version = "v1" THEN "models" :> <<model>> ELSE "model" :> model

\* BuildPayload that looks at the single model before the models list
BuildPayloadModelFirst(api_version, message, pricing_method, model, models, quantity) ==
    IF ModelGiven(model)
    THEN PayloadBase(message) @@ SingleModelField(api_version, model.val)
    ELSE IF ModelsGiven(models)
    THEN PayloadBase(message) @@ ("models" :> models.val)
    ELSE PayloadBase(message)
         @@ ("smart_llm_selector" :> SmartSelector(api_version, pricing_method, quantity))

\* BuildPayload that adds the single model to a payload that carries the list
BuildPayloadBothFields(api_version, message, pricing_method, model, models, quantity) ==
    IF ModelsGiven(models)
    THEN PayloadBase(message) @@ ("models" :> models.val)
         @@ (IF ModelGiven(model) THEN "model" :> model.val ELSE EmptyDict)
    ELSE IF ModelGiven(model)
    THEN PayloadBase(message) @@ SingleModelField(api_version, model.val)
    ELSE PayloadBase(message)
         @@ ("smart_llm_selector" :> SmartSelector(api_version, pricing_method, quantity))

BuildPayload(api_version, message, pricing_method, model, models, quantity) ==
    IF ModelsGiven(models)
    THEN PayloadBase(message) @@ ("models" :> models.val)
    ELSE IF ModelGiven(model)
    THEN PayloadBase(message) @@ SingleModelField(api_version, model.val)
    ELSE PayloadBase(message)
         @@ ("smart_llm_selector" :> SmartSelector(api_version, pricing_method, quantity))

\* QuantityInvalid with the upper limit taken exclusive
QuantityInvalidOffByOne(quantity) ==
    quantity.some /\ (quantity.val < QuantityMin \/ quantity.val >= QuantityMax)

\* quantity is not None and (quantity < 1 or quantity > 4)
QuantityInvalid(quantity) ==
    quantity.some /\ (quantity.val < QuantityMin \/ quantity.val > QuantityMax)

-----------------------------------------------------------------------------
(* difflib.get_close_matches, as find_similar_models calls it (no junk      *)
(* heuristic applies: isjunk is None and every string is shorter than 200)  *)

MatchAt(a, b, i, j, k) == \A d \in 0..(k - 1) : a[i + d] = b[j + d]

BlocksOfSize(a, b, alo, ahi, blo, bhi, k) ==
    {ij \in (alo..(ahi - k + 1)) \X (blo..(bhi - k + 1)) : MatchAt(a, b, ij[1], ij[2], k)}

Minimum(S) == CHOOSE x \in S : \A y \in S : x <= y

Maximum(S) == CHOOSE x \in S : \A y \in S : x >= y

\* SequenceMatcher.find_longest_match on a[alo..ahi], b[blo..bhi]: the longest
\* common block, the one starting earliest in a, then earliest in b
LongestMatch(a, b, alo, ahi, blo, bhi) ==
    LET sizes == {k \in 1..(ahi - alo + 1) :
                      BlocksOfSize(a, b, alo, ahi, blo, bhi, k) # {}}
    IN  IF sizes = {} THEN [i |-> alo, j |-> blo, k |-> 0]
        ELSE LET k  == Maximum(sizes)
                 bs == BlocksOfSize(a, b, alo, ahi, blo, bhi, k)
                 i  == Minimum({ij[1] : ij \in bs})
                 j  == Minimum({ij[2] : ij \in {x \in bs : x[1] = i}})
             IN  [i |-> i, j |-> j, k |-> k]

\* the total size of SequenceMatcher.get_matching_blocks
RECURSIVE MatchCount(_, _, _, _, _, _)
MatchCount(a, b, alo, ahi, blo, bhi) ==
    IF alo > ahi \/ blo > bhi THEN 0
    ELSE LET m == LongestMatch(a, b, alo, ahi, blo, bhi)
         IN  IF m.k = 0 THEN 0
             ELSE m.k + MatchCount(a, b, alo, m.i - 1, blo, m.j - 1)
                      + MatchCount(a, b, m.i + m.k, ahi, m.j + m.k, bhi)

\* SequenceMatcher(a, b).ratio() as the fraction num/den: 2.0*matches/length,
\* and 1.0 when both strings are empty
Ratio(a, b) ==
    IF Len(a) + Len(b) = 0 THEN [num |-> 1, den |-> 1]
    ELSE [num |-> 2 * MatchCount(a, b, 1, Len(a), 1, Len(b)), den |-> Len(a) + Len(b)]

CutoffNum == 3

CutoffDen == 10

\* ratio >= cutoff (the quick ratios are upper bounds of ratio and filter nothing more)
AtLeastCutoff(r) == r.num * CutoffDen >= CutoffNum * r.den

\* (score, x) > (score', x') as Python compares tuples
ScoredGreater(p, q) ==
    \/ p.score.num * q.score.den > q.score.num * p.score.den
    \/ /\ p.score.num * q.score.den = q.score.num * p.score.den
       /\ StrLess(q.x, p.x)

RECURSIVE InsertScored(_, _)
InsertScored(p, sorted) ==
    IF sorted = <<>> THEN <<p>>
    ELSE IF ScoredGreater(p, Head(sorted)) THEN <<p>> \o sorted
    ELSE <<Head(sorted)>> \o InsertScored(p, Tail(sorted))

\* sorted(result, reverse=True)
RECURSIVE SortScored(_)
SortScored(s) ==
    IF s = <<>> THEN <<>> ELSE InsertScored(Head(s), SortScored(Tail(s)))

\* Take that keeps everything
TakeAll(s, n) == s

\* s[:n] for n >= 0
Take(s, n) == SubSeq(s, 1, IF Len(s) < n THEN Len(s) ELSE n)

\* heapq.nlargest(n, result)
NLargest(n, s) == Take(SortScored(s), n)

\* difflib.get_close_matches(word, possibilities, n, cutoff) for n > 0
GetCloseMatches(word, possibilities, n) ==
    LET scored == [i \in 1..Len(possibilities) |->
                      [score |-> Ratio(possibilities[i], word), x |-> possibilities[i]]]
        kept   == SelectSeq(scored, LAMBDA p : AtLeastCutoff(p.score))
        best   == NLargest(n, kept)
    IN  [i \in 1..Len(best) |-> best[i].x]

-----------------------------------------------------------------------------
(* Suggestion engine: find_similar_models, lines 91-132 *)

JDict(d) == [t |-> "dict", v |-> d]

JList(l) == [t |-> "list", v |-> l]

Returned(v) == [raised |-> FALSE, value |-> v]

Raised(e) == [raised |-> TRUE, exc |-> e]

EntryId(m) == Get(m, "model", <<>>)

EntryName(m) == Get(m, "name", <<>>)

\* the first entry of model_list with this id
FirstWithId(model_list, id) ==
    model_list[Minimum({i \in 1..Len(model_list) : EntryId(model_list[i]) = id})]

\* lines 119-124: one catalog entry per close match not seen before
RECURSIVE AddCloseMatches(_, _, _)
AddCloseMatches(close_matches, model_list, acc) ==
    IF close_matches = <<>> THEN acc
    ELSE LET id == Head(close_matches)
         IN  AddCloseMatches(Tail(close_matches), model_list,
                 IF id \in acc.seen_ids THEN acc
                 ELSE [result_models |-> Append(acc.result_models,
                                                FirstWithId(model_list, id)),
                       seen_ids      |-> acc.seen_ids \cup {id}])

\* AddKeywordMatches that does not look at seen_ids
RECURSIVE AddKeywordMatchesNoSeen(_, _, _)
AddKeywordMatchesNoSeen(keyword_matches, max_suggestions, acc) ==
    IF keyword_matches = <<>> THEN acc
    ELSE LET m == Head(keyword_matches)
         IN  AddKeywordMatchesNoSeen(Tail(keyword_matches), max_suggestions,
                 IF Len(acc.result_models) < max_suggestions
                 THEN [result_models |-> Append(acc.result_models, m),
                       seen_ids      |-> acc.seen_ids \cup {EntryId(m)}]
                 ELSE acc)

\* lines 127-130: keyword matches not seen before, while there is room
RECURSIVE AddKeywordMatches(_, _, _)
AddKeywordMatches(keyword_matches, max_suggestions, acc) ==
    IF keyword_matches = <<>> THEN acc
    ELSE LET m == Head(keyword_matches)
         IN  AddKeywordMatches(Tail(keyword_matches), max_suggestions,
                 IF EntryId(m) \notin acc.seen_ids
                    /\ Len(acc.result_models) < max_suggestions
                 THEN [result_models |-> Append(acc.result_models, m),
                       seen_ids      |-> acc.seen_ids \cup {EntryId(m)}]
                 ELSE acc)

\* IsKeywordMatch that lower-cases the entry only, not the search term
IsKeywordMatchTermAsGiven(model_name, m) ==
    \/ Contains(Lower(EntryId(m)), model_name)
    \/ Contains(Lower(EntryName(m)), model_name)

\* search_term in m[0].lower() or search_term in m[1].lower()
IsKeywordMatch(model_name, m) ==
    \/ Contains(Lower(EntryId(m)), Lower(model_name))
    \/ Contains(Lower(EntryName(m)), Lower(model_name))

\* SimilarModels that adds the keyword matches before the close matches
SimilarModelsKeywordFirst(model_name, all_models, max_suggestions) ==
    LET model_ids       == [i \in 1..Len(all_models) |-> EntryId(all_models[i])]
        close_matches   == GetCloseMatches(model_name, model_ids, max_suggestions)
        keyword_matches == SelectSeq(all_models, LAMBDA m : IsKeywordMatch(model_name, m))
        first  == AddKeywordMatches(keyword_matches, max_suggestions,
                                    [result_models |-> <<>>, seen_ids |-> {}])
        second == AddCloseMatches(close_matches, all_models, first)
    IN  Take(second.result_models, max_suggestions)

\* lines 99-132, for a non-empty list of chat entries
SimilarModels(model_name, all_models, max_suggestions) ==
    LET model_ids       == [i \in 1..Len(all_models) |-> EntryId(all_models[i])]
        close_matches   == GetCloseMatches(model_name, model_ids, max_suggestions)
        keyword_matches == SelectSeq(all_models, LAMBDA m : IsKeywordMatch(model_name, m))
        first  == AddCloseMatches(close_matches, all_models,
                                  [result_models |-> <<>>, seen_ids |-> {}])
        second == AddKeywordMatches(keyword_matches, max_suggestions, first)
    IN  Take(second.result_models, max_suggestions)

-----------------------------------------------------------------------------
(* The transport: what requests.post and requests.get may do *)

\* "Model not found: g4", "Model not found: g4, bd", "Model not found",
\* "Invalid API key"
ErrorTexts ==
    {ModelNotFoundMarker \o <<":", " ", "g", "4">>,
     ModelNotFoundMarker \o <<":", " ", "g", "4", ",", " ", "b", "d">>,
     ModelNotFoundMarker,
     <<"I", "n", "v", "a", "l", "i", "d", " ", "A", "P", "I", " ", "k", "e", "y">>}

Undecodable == [decodable |-> FALSE]

Decoded(j) == [decodable |-> TRUE, json |-> j]

CompletionBodies ==
    {Undecodable,
     Decoded([success |-> TRUE, completion |-> "answer"]),
     Decoded([message |-> "oops"])}
    \cup {Decoded([success |-> FALSE, error |-> e]) : e \in ErrorTexts}

StatusCodes == {200, ModelNotFoundStatus, 500}

NoResponse(e) == [kind |-> "raise", exc |-> e]

Responded(status_code, body) ==
    [kind |-> "response", status_code |-> status_code, body |-> body]

\* the transport errors that leave no response
ConnectionError ==
    [type |-> "ConnectionError",
     msg  |-> <<"C", "o", "n", "n", "e", "c", "t", "i", "o", "n", " ",
                "r", "e", "f", "u", "s", "e", "d">>]

Timeout ==
    [type |-> "Timeout",
     msg  |-> <<"R", "e", "a", "d", " ", "t", "i", "m", "e", "d", " ", "o", "u", "t">>]

PostOutcomes ==
    {NoResponse(ConnectionError), NoResponse(Timeout)}
    \cup {Responded(s, b) : s \in StatusCodes, b \in CompletionBodies}

\* chat entries of the catalog: "g4o"/"GPT", "og4" without a name, "zz"/"G4"
CatalogEntries ==
    {[model |-> <<"g", "4", "o">>, name |-> <<"G", "P", "T">>],
     [model |-> <<"o", "g", "4">>],
     [model |-> <<"z", "z">>, name |-> <<"G", "4">>]}

Catalogs == UNION {[1..n -> CatalogEntries] : n \in 0..MaxCatalog}

\* SimilarModels for the searches the callers make (an identifier a caller asked
\* for, a catalog the service answers with, a max_suggestions), computed once:
\* merging with the empty function makes the table a tabulated function
SimilarModelsTable ==
    [s \in (RequestIds \cup SearchTerms) \X Catalogs \X MaxSuggestionsArgs |->
        IF s[2] = <<>> \/ ~(s[3] > 0) THEN <<>>
        ELSE SimilarModels(s[1], s[2], s[3])]
    @@ EmptyDict

\* lines 103-106: close_matches for the searches the callers make, computed once
CloseMatchesTable ==
    [s \in (RequestIds \cup SearchTerms) \X Catalogs \X MaxSuggestionsArgs |->
        IF ~(s[3] > 0) THEN <<>>
        ELSE GetCloseMatches(s[1], [i \in 1..Len(s[2]) |-> EntryId(s[2][i])], s[3])]
    @@ EmptyDict

\* lines 99-132, looked up when the search is one of the callers'
SimilarModelsOf(model_name, all_models, max_suggestions) ==
    IF /\ max_suggestions \in MaxSuggestionsArgs
       /\ model_name \in RequestIds \cup SearchTerms
       /\ all_models \in Catalogs
    THEN SimilarModelsTable[<<model_name, all_models, max_suggestions>>]
    ELSE SimilarModels(model_name, all_models, max_suggestions)

\* FetchFailed that takes every answer for a catalog
FetchFailedNever(fetched) == FALSE

\* line 92: not models_response.get("success")
FetchFailed(fetched) == ~Get(fetched, "success", FALSE)

\* FindSimilarModels whose result_models outlive the call: the entries of the
\* previous search are still in the list when the next one starts
FindSimilarModelsRemembering(model_name, max_suggestions, fetched) ==
    LET kept == IF previous.some /\ ~previous.val.outcome.raised
                THEN previous.val.outcome.value ELSE <<>>
    IN  IF FetchFailed(fetched) THEN Returned(<<>>)
        ELSE LET data == Get(fetched, "data", JDict(EmptyDict))
             IN  IF data.t # "dict" THEN Raised("AttributeError")
                 ELSE LET all_models == Get(data.v, "chat", <<>>)
                      IN  IF all_models = <<>> THEN Returned(<<>>)
                          ELSE IF ~(max_suggestions > 0) THEN Raised("ValueError")
                          ELSE Returned(Take(kept \o SimilarModelsOf(model_name, all_models,
                                                                     max_suggestions),
                                             max_suggestions))

\* find_similar_models(model_name, max_suggestions), given what get_models returned
FindSimilarModels(model_name, max_suggestions, fetched) ==
    IF FetchFailed(fetched) THEN Returned(<<>>)
    ELSE LET data == Get(fetched, "data", JDict(EmptyDict))
         IN  IF data.t # "dict" THEN Raised("AttributeError")
             ELSE LET all_models == Get(data.v, "chat", <<>>)
                  IN  IF all_models = <<>> THEN Returned(<<>>)
                      ELSE IF ~(max_suggestions > 0) THEN Raised("ValueError")
                      ELSE Returned(SimilarModelsOf(model_name, all_models, max_suggestions))

OneEntry == <<[model |-> <<"g", "4", "o">>, name |-> <<"G", "P", "T">>]>>

CatalogBodies ==
    {Decoded([success |-> TRUE, data |-> JDict([chat |-> c])]) : c \in Catalogs}
    \cup {Undecodable,
          Decoded([success |-> TRUE, data |-> JDict(EmptyDict)]),
          Decoded([success |-> FALSE, data |-> JDict([chat |-> OneEntry])]),
          Decoded([data |-> JDict([chat |-> OneEntry])]),
          Decoded([success |-> TRUE, data |-> JList(<<>>)])}

GetOutcomes ==
    {NoResponse(ConnectionError), Responded(500, Undecodable),
     Responded(500, Decoded([success |-> TRUE, data |-> JDict([chat |-> OneEntry])]))}
    \cup {Responded(200, b) : b \in CatalogBodies}

\* response.raise_for_status() raises HTTPError
IsHttpError(status_code) == 400 <= status_code /\ status_code < 600

HTTPError(status_code) ==
    [type |-> "HTTPError",
     msg  |-> IntToStr(status_code)
              \o (IF status_code < 500
                  THEN <<" ", "C", "l", "i", "e", "n", "t", " ", "E", "r", "r", "o", "r">>
                  ELSE <<" ", "S", "e", "r", "v", "e", "r", " ", "E", "r", "r", "o", "r">>)]

\* what response.json() raises on a body that is not JSON; requests derives it
\* from RequestException
JSONDecodeError ==
    [type |-> "JSONDecodeError",
     msg  |-> <<"E", "x", "p", "e", "c", "t", "i", "n", "g", " ", "v", "a", "l", "u", "e">>]

\* the RequestException that requests.post / raise_for_status / json raise on
\* this outcome, or NoneVal when the exchange succeeds
RequestException(o) ==
    IF o.kind = "raise" THEN Some(o.exc)
    ELSE IF IsHttpError(o.status_code) THEN Some(HTTPError(o.status_code))
    ELSE IF ~o.body.decodable THEN Some(JSONDecodeError)
    ELSE NoneVal

-----------------------------------------------------------------------------
(* The client object and the catalog fetcher *)

BaseHost == "https://api.straico.com"

\* StraicoClient.__init__
NewClient(api_key, api_version) ==
    [api_key     |-> api_key,
     api_version |-> api_version,
     base_url    |-> <<BaseHost, api_version>>,
     headers     |-> ("Authorization" :> <<"Bearer", api_key>>)
                     @@ ("Content-Type" :> "application/json")]

\* the api_version of a client constructed without one
DefaultApiVersion == "v1"

\* cli.py, parser.parse_args(): the parser defines no --api-version option, and
\* argparse leaves with status 2 on an argument it does not know
ParseArgs(api_version_option) ==
    IF api_version_option.some THEN [exit_code |-> Some(2)]
    ELSE [exit_code |-> NoneVal]

\* cli.py, main up to client = StraicoClient(api_key)
Main(api_key, api_version_option) ==
    LET parsed == ParseArgs(api_version_option)
    IN  IF parsed.exit_code.some
        THEN [exit_code |-> parsed.exit_code, client |-> NoneVal]
        ELSE [exit_code |-> NoneVal, client |-> Some(NewClient(api_key, DefaultApiVersion))]

PostRequest(c, p) ==
    [method  |-> "POST",
     url     |-> c.base_url \o <<"prompt", "completion">>,
     headers |-> c.headers,
     json    |-> p]

GetRequest(c) ==
    [method  |-> "GET",
     url     |-> <<BaseHost, "v1", "models">>,
     headers |-> c.headers]

\* GetModels without raise_for_status
GetModelsAnyStatus(o) ==
    IF o.kind = "raise" \/ ~o.body.decodable
    THEN [data |-> JList(<<>>), success |-> FALSE]
    ELSE o.body.json

\* get_models, lines 72-78, given what requests.get did
GetModels(o) ==
    IF RequestException(o).some
    THEN [data |-> JList(<<>>), success |-> FALSE]
    ELSE o.body.json

-----------------------------------------------------------------------------
(* Failure classifier: chat, lines 207-249 *)

Truthy(s) == s.some /\ s.val # <<>>

\* FirstInError that keeps the last identifier found instead of breaking
FirstInErrorNoBreak(models, text) ==
    LET hits == {i \in 1..Len(models) : Contains(text, models[i])}
    IN  IF hits = {} THEN NoneVal ELSE Some(models[Maximum(hits)])

\* lines 228-231: the first m of models with m in api_error
FirstInError(models, text) ==
    LET hits == {i \in 1..Len(models) : Contains(text, models[i])}
    IN  IF hits = {} THEN NoneVal ELSE Some(models[Minimum(hits)])

\* RequestedModel that knows the single model only
RequestedModelSingleOnly(model, models, text) ==
    IF ModelGiven(model) THEN model ELSE NoneVal

\* lines 218-234
RequestedModel(model, models, text) ==
    IF ModelGiven(model) THEN model
    ELSE IF ModelsGiven(models) /\ Len(models.val) = 1 THEN Some(models.val[1])
    ELSE IF ModelsGiven(models) /\ Len(models.val) > 1
    THEN LET found == FirstInError(models.val, text)
         IN  IF Truthy(found) THEN found ELSE Some(models.val[1])
    ELSE NoneVal

\* ApiError that does not look at the status code
ApiErrorAnyStatus(o) ==
    IF o.body.decodable THEN Some(Get(o.body.json, "error", <<>>)) ELSE NoneVal

\* lines 210-213: api_error, bound when the status is 422 and the body decodes
ApiError(o) ==
    IF o.status_code = ModelNotFoundStatus /\ o.body.decodable
    THEN Some(Get(o.body.json, "error", <<>>))
    ELSE NoneVal

\* IsModelNotFound that takes every decoded 422 for a missing model
IsModelNotFoundAny422(text) == text.some

\* line 216: "Model not found" in api_error
IsModelNotFound(text) == text.some /\ Contains(text.val, ModelNotFoundMarker)

\* SuccessResult that wraps the body in an envelope of its own
SuccessResultWrapped(o) == [success |-> TRUE, data |-> o.body.json]

\* lines 205-206: result = response.json(); return result
SuccessResult(o) == o.body.json

PlainFailure(msg) == [success |-> FALSE, error |-> msg]

ModelNotFoundFailure(text, requested, similar_models) ==
    [success         |-> FALSE,
     error           |-> text,
     model_not_found |-> TRUE,
     requested_model |-> requested,
     suggestions     |-> similar_models]

\* the finally clause up to line 40: animation.stop() clears the running flag
StopAnimation(a) ==
    IF a.some THEN Some([a.val EXCEPT !.running = FALSE]) ELSE a

\* the finally clause, lines 252 and 41-42: with an animation chat waits in
\* thread.join(), without one it returns
AfterStop(a) == IF a.some THEN "joining" ELSE "returned"

\* a loop that never looks at the running flag again
LoopContinuesAlways(a) == TRUE

\* while self.running, line 26
LoopContinues(a) == a.running

\* lines 194-198
StartAnimation(show_animation) ==
    IF show_animation THEN Some([running |-> TRUE, thread |-> "alive"]) ELSE NoneVal

-----------------------------------------------------------------------------
(* The state machine *)

ApiKeys == {"key"}

\* a library caller has constructed the client with either schema version, or
\* the command line is started with or without --api-version
Init ==
    /\ \/ /\ client \in {NewClient(k, v) : k \in ApiKeys, v \in ApiVersions}
          /\ cli = NoneVal
          /\ pc = "idle"
       \/ /\ client = NoneVal
          /\ cli \in {Some([api_key |-> k, api_version_option |-> option]) :
                          k \in ApiKeys, option \in ApiVersionOptions}
          /\ pc = "main"
    /\ search = NoneVal
    /\ outcome = NoneVal
    /\ previous = NoneVal
    /\ earlier = NoneVal
    /\ args = NoneVal
    /\ payload = NoneVal
    /\ animation = NoneVal
    /\ response = NoneVal
    /\ api_error = NoneVal
    /\ requested_model = NoneVal
    /\ error_msg = NoneVal
    /\ models_response = NoneVal
    /\ network = <<>>
    /\ result = NoneVal
    /\ raised = NoneVal

\* Chat that passes the show_animation flag on in the payload
ChatFlagInPayload(message, pricing_method, model, models, quantity, show_animation) ==
    /\ pc = "idle"
    /\ args' = Some([message |-> message, pricing_method |-> pricing_method,
                     model |-> model, models |-> models, quantity |-> quantity,
                     show_animation |-> show_animation])
    /\ response' = NoneVal
    /\ api_error' = NoneVal
    /\ requested_model' = NoneVal
    /\ error_msg' = NoneVal
    /\ models_response' = NoneVal
    /\ raised' = NoneVal
    /\ IF QuantityInvalid(quantity)
       THEN /\ result' = Some(PlainFailure(QuantityError(quantity.val)))
            /\ payload' = NoneVal
            /\ animation' = NoneVal
            /\ network' = <<>>
            /\ pc' = "returned"
       ELSE LET p == BuildPayload(client.api_version, message, pricing_method,
                                  model, models, quantity)
                     @@ ("show_animation" :> show_animation)
            IN  /\ result' = NoneVal
                /\ payload' = Some(p)
                /\ animation' = StartAnimation(show_animation)
                /\ network' = <<PostRequest(client, p)>>
                /\ pc' = "posting"
    /\ previous' = NoneVal
    /\ UNCHANGED <<client, search, outcome, cli, earlier>>

\* chat is called, lines 157-201: the quantity is validated, the payload is built,
\* the animation is started and the POST is handed to the transport
Chat(message, pricing_method, model, models, quantity, show_animation) ==
    /\ pc = "idle"
    /\ args' = Some([message |-> message, pricing_method |-> pricing_method,
                     model |-> model, models |-> models, quantity |-> quantity,
                     show_animation |-> show_animation])
    /\ response' = NoneVal
    /\ api_error' = NoneVal
    /\ requested_model' = NoneVal
    /\ error_msg' = NoneVal
    /\ models_response' = NoneVal
    /\ raised' = NoneVal
    /\ IF QuantityInvalid(quantity)
       THEN /\ result' = Some(PlainFailure(QuantityError(quantity.val)))
            /\ payload' = NoneVal
            /\ animation' = NoneVal
            /\ network' = <<>>
            /\ pc' = "returned"
       ELSE LET p == BuildPayload(client.api_version, message, pricing_method,
                                  model, models, quantity)
            IN  /\ result' = NoneVal
                /\ payload' = Some(p)
                /\ animation' = StartAnimation(show_animation)
                /\ network' = <<PostRequest(client, p)>>
                /\ pc' = "posting"
    /\ previous' = NoneVal
    /\ UNCHANGED <<client, search, outcome, cli, earlier>>

\* requests.post returns or raises, lines 201-253 up to the catalog GET
PostCompletes(o) ==
    /\ pc = "posting"
    /\ LET e == RequestException(o)
       IN  IF ~e.some
           THEN \* lines 204-206: the decoded body is the result
                /\ response' = Some(o)
                /\ result' = Some(SuccessResult(o))
                /\ raised' = NoneVal
                /\ animation' = StopAnimation(animation)
                /\ pc' = AfterStop(animation)
                /\ UNCHANGED <<api_error, requested_model, error_msg, network>>
           ELSE IF o.kind = "raise"
           THEN \* line 210 reads response, which line 201 never bound
                /\ error_msg' = Some(e.val.msg)
                /\ raised' = Some("UnboundLocalError")
                /\ result' = NoneVal
                /\ animation' = StopAnimation(animation)
                /\ pc' = AfterStop(animation)
                /\ UNCHANGED <<response, api_error, requested_model, network>>
           ELSE LET text      == ApiError(o)
                    requested == IF IsModelNotFound(text)
                                 THEN RequestedModel(args.val.model, args.val.models,
                                                     text.val)
                                 ELSE NoneVal
                IN  /\ error_msg' = Some(e.val.msg)
                    /\ response' = Some(o)
                    /\ api_error' = text
                    /\ requested_model' = requested
                    /\ raised' = NoneVal
                    /\ IF Truthy(requested)
                       THEN \* line 238 -> line 91 -> line 73
                            /\ network' = Append(network, GetRequest(client))
                            /\ pc' = "fetching"
                            /\ UNCHANGED <<result, animation>>
                       ELSE \* line 249
                            /\ result' = Some(PlainFailure(e.val.msg))
                            /\ animation' = StopAnimation(animation)
                            /\ pc' = AfterStop(animation)
                            /\ UNCHANGED network
    /\ UNCHANGED <<client, args, payload, models_response, search, outcome,
                   previous, cli, earlier>>

\* GetCompletes without the except clause of line 246: what the suggestion
\* lookup raises leaves chat
GetCompletesPropagating(o) ==
    /\ pc = "fetching"
    /\ LET fetched == GetModels(o)
           similar == FindSimilarModels(requested_model.val, DefaultMaxSuggestions,
                                        fetched)
       IN  /\ models_response' = Some(fetched)
           /\ result' = IF similar.raised THEN NoneVal
                        ELSE Some(ModelNotFoundFailure(api_error.val,
                                                       requested_model.val,
                                                       similar.value))
           /\ raised' = IF similar.raised THEN Some(similar.exc) ELSE raised
    /\ animation' = StopAnimation(animation)
    /\ pc' = AfterStop(animation)
    /\ UNCHANGED <<client, args, payload, response, api_error, requested_model,
                   error_msg, network, search, outcome, previous, cli, earlier>>

\* requests.get returns or raises, lines 73-78, 92-132 and 239-253
GetCompletes(o) ==
    /\ pc = "fetching"
    /\ LET fetched == GetModels(o)
           similar == FindSimilarModels(requested_model.val, DefaultMaxSuggestions,
                                        fetched)
       IN  /\ models_response' = Some(fetched)
           /\ result' = IF similar.raised
                        THEN \* lines 246-249
                             Some(PlainFailure(error_msg.val))
                        ELSE Some(ModelNotFoundFailure(api_error.val,
                                                       requested_model.val,
                                                       similar.value))
    /\ animation' = StopAnimation(animation)
    /\ pc' = AfterStop(animation)
    /\ UNCHANGED <<client, args, payload, response, api_error, requested_model,
                   error_msg, network, raised, search, outcome, previous, cli, earlier>>

\* one turn of the animation thread, lines 26-30: it looks at the running flag,
\* and prints the next frame and sleeps, or leaves the loop and terminates
Animate ==
    /\ animation # NoneVal
    /\ animation.val.thread = "alive"
    /\ animation' = IF LoopContinues(animation.val)
                    THEN animation
                    ELSE Some([animation.val EXCEPT !.thread = "terminated"])
    /\ UNCHANGED <<client, pc, args, payload, response, api_error, requested_model,
                   error_msg, models_response, network, result, raised, search,
                   outcome, previous, cli, earlier>>

\* thread.join() of line 42 returns once the thread has terminated, the line is
\* cleared and chat returns
Join ==
    /\ pc = "joining"
    /\ animation.val.thread = "terminated"
    /\ pc' = "returned"
    /\ UNCHANGED <<client, args, payload, animation, response, api_error,
                   requested_model, error_msg, models_response, network, result,
                   raised, search, outcome, previous, cli, earlier>>

\* cli.py, main: the command line is parsed and the client constructed, or the
\* process exits
RunMain ==
    /\ pc = "main"
    /\ LET m == Main(cli.val.api_key, cli.val.api_version_option)
       IN  IF m.exit_code.some
           THEN /\ pc' = "exited"
                /\ UNCHANGED <<client, cli>>
           ELSE /\ client' = m.client.val
                /\ cli' = NoneVal
                /\ pc' = "idle"
    /\ UNCHANGED <<args, payload, animation, response, api_error, requested_model,
                   error_msg, models_response, network, result, raised, search,
                   outcome, previous, earlier>>

\* CallGetModels that points the client at the v1 host it fetches the catalog from
CallGetModelsRebasing ==
    /\ pc = "idle"
    /\ client' = [client EXCEPT !.base_url = <<BaseHost, "v1">>]
    /\ network' = <<GetRequest(client)>>
    /\ pc' = "get_models"
    /\ UNCHANGED <<args, payload, animation, response, api_error,
                   requested_model, error_msg, models_response, result, raised,
                   search, outcome, previous, cli, earlier>>

\* get_models is called directly, line 73: the GET is handed to the transport
CallGetModels ==
    /\ pc = "idle"
    /\ network' = <<GetRequest(client)>>
    /\ pc' = "get_models"
    /\ UNCHANGED <<client, args, payload, animation, response, api_error,
                   requested_model, error_msg, models_response, result, raised,
                   search, outcome, previous, cli, earlier>>

\* requests.get returns or raises, lines 73-78
GetModelsCompletes(o) ==
    /\ pc = "get_models"
    /\ response' = IF o.kind = "response" THEN Some(o) ELSE NoneVal
    /\ outcome' = Some(Returned(GetModels(o)))
    /\ pc' = "delivered"
    /\ UNCHANGED <<client, args, payload, animation, api_error, requested_model,
                   error_msg, models_response, network, result, raised, search,
                   previous, cli, earlier>>

\* find_similar_models is called directly, lines 91 and 73: get_models hands the
\* GET to the transport
CallFindSimilarModels(model_name, max_suggestions) ==
    /\ pc = "idle"
    /\ search' = Some([model_name |-> model_name, max_suggestions |-> max_suggestions])
    /\ network' = <<GetRequest(client)>>
    /\ pc' = "find_similar_models"
    /\ UNCHANGED <<client, args, payload, animation, response, api_error,
                   requested_model, error_msg, models_response, result, raised,
                   outcome, previous, cli, earlier>>

\* requests.get returns or raises, lines 73-78 and 92-132
FindSimilarModelsCompletes(o) ==
    /\ pc = "find_similar_models"
    /\ LET fetched == GetModels(o)
       IN  /\ models_response' = Some(fetched)
           /\ outcome' = Some(FindSimilarModels(search.val.model_name,
                                              search.val.max_suggestions, fetched))
    /\ response' = IF o.kind = "response" THEN Some(o) ELSE NoneVal
    /\ pc' = "delivered"
    /\ UNCHANGED <<client, args, payload, animation, api_error, requested_model,
                   error_msg, network, result, raised, search, previous, cli, earlier>>

\* the caller takes what the call returned or raised; the call's frame and its
\* locals are gone, the client object stays
Return ==
    /\ pc \in {"returned", "delivered"}
    /\ previous' = IF pc = "delivered" /\ search.some
                   THEN Some([search          |-> search.val,
                              models_response |-> models_response.val,
                              outcome         |-> outcome.val])
                   ELSE previous
    /\ search' = NoneVal
    /\ outcome' = NoneVal
    /\ pc' = "idle"
    /\ args' = NoneVal
    /\ payload' = NoneVal
    /\ animation' = NoneVal
    /\ response' = NoneVal
    /\ api_error' = NoneVal
    /\ requested_model' = NoneVal
    /\ error_msg' = NoneVal
    /\ models_response' = NoneVal
    /\ network' = <<>>
    /\ result' = NoneVal
    /\ raised' = NoneVal
    /\ UNCHANGED <<client, cli, earlier>>

\* a caller calls chat with any arguments
Call ==
    /\ pc = "idle"
    /\ \E message \in Messages, pricing_method \in PricingMethods,
          model \in ModelArgs, models \in ModelsArgs, quantity \in QuantityArgs,
          show_animation \in BOOLEAN :
           Chat(message, pricing_method, model, models, quantity, show_animation)

\* the transport answers the POST in any way
PostAnswered ==
    /\ pc = "posting"
    /\ \E o \in PostOutcomes : PostCompletes(o)

\* the transport answers the catalog GET in any way
GetAnswered ==
    /\ pc = "fetching"
    /\ \E o \in GetOutcomes : GetCompletes(o)

\* a caller calls find_similar_models with any arguments
Search ==
    /\ pc = "idle"
    /\ \E model_name \in SearchTerms, max_suggestions \in MaxSuggestionsArgs :
           CallFindSimilarModels(model_name, max_suggestions)

\* the transport answers the GET of a direct get_models call in any way
GetModelsAnswered ==
    /\ pc = "get_models"
    /\ \E o \in GetOutcomes : GetModelsCompletes(o)

\* the transport answers the GET of a direct find_similar_models call in any way
SearchAnswered ==
    /\ pc = "find_similar_models"
    /\ \E o \in GetOutcomes : FindSimilarModelsCompletes(o)

Next ==
    \/ RunMain
    \/ Call
    \/ PostAnswered
    \/ Animate
    \/ Join
    \/ GetAnswered
    \/ CallGetModels
    \/ GetModelsAnswered
    \/ Search
    \/ SearchAnswered
    \/ Return

Spec == Init /\ [][Next]_vars

-----------------------------------------------------------------------------
(* One client used again and again: a chat call on the fresh client, then     *)
(* get_models and find_similar_models calls, then the same chat call once more *)
(* against a transport that answers it as it answered the first, while the     *)
(* animation thread runs under a fair scheduler.                              *)

\* the arguments of the chat calls that are made again
AgainModelArgs == {NoneVal, Some(<<"b", "d">>)}

AgainModelsArgs ==
    {NoneVal, Some(<< <<"g", "4">> >>), Some(<< <<"b", "d">>, <<"g", "4">> >>)}

AgainQuantityArgs == {NoneVal, Some(QuantityMin + 1), Some(QuantityMax + 1)}

\* the answers of the transport to the POST of such a call
AgainPostOutcomes ==
    {NoResponse(ConnectionError),
     Responded(200, Undecodable),
     Responded(200, Decoded([success |-> TRUE, completion |-> "answer"])),
     Responded(500, Decoded([message |-> "oops"]))}
    \cup {Responded(ModelNotFoundStatus, Decoded([success |-> FALSE, error |-> e])) :
              e \in ErrorTexts}

\* the answers of the transport to a catalog GET
AgainGetOutcomes ==
    {NoResponse(ConnectionError),
     Responded(200, Decoded([success |-> TRUE, data |-> JList(<<>>)])),
     Responded(200, Decoded([success |-> TRUE, data |-> JDict([chat |-> OneEntry])]))}

AgainInit == Init /\ pc = "idle"

\* what the caller and the transport saw of the chat call that has returned
Seen ==
    [args            |-> args.val,
     payload         |-> payload,
     network         |-> network,
     response        |-> response,
     error_msg       |-> error_msg,
     models_response |-> models_response,
     result          |-> result,
     raised          |-> raised]

\* the first chat call on the client
FirstCall ==
    /\ pc = "idle"
    /\ earlier = NoneVal
    /\ \E model \in AgainModelArgs, models \in AgainModelsArgs,
          quantity \in AgainQuantityArgs, show_animation \in BOOLEAN :
           Chat("hello", "balance", model, models, quantity, show_animation)

FirstPostAnswered ==
    /\ pc = "posting"
    /\ earlier = NoneVal
    /\ \E o \in AgainPostOutcomes : PostCompletes(o)

FirstGetAnswered ==
    /\ pc = "fetching"
    /\ earlier = NoneVal
    /\ \E o \in AgainGetOutcomes : GetCompletes(o)

\* the first call has returned or raised: the caller keeps what it saw
FirstReturned ==
    /\ pc = "returned"
    /\ earlier = NoneVal
    /\ earlier' = Some(Seen)
    /\ UNCHANGED <<client, pc, args, payload, animation, response, api_error,
                   requested_model, error_msg, models_response, network, result,
                   raised, search, outcome, previous, cli>>

LaterReturn ==
    /\ earlier # NoneVal
    /\ Return

LaterGetModels ==
    /\ earlier # NoneVal
    /\ CallGetModels

LaterGetModelsAnswered ==
    /\ pc = "get_models"
    /\ \E o \in AgainGetOutcomes : GetModelsCompletes(o)

LaterSearch ==
    /\ earlier # NoneVal
    /\ CallFindSimilarModels(<<"g", "4">>, DefaultMaxSuggestions)

LaterSearchAnswered ==
    /\ pc = "find_similar_models"
    /\ \E o \in AgainGetOutcomes : FindSimilarModelsCompletes(o)

\* the first call is made again, with or without the animation
CallAgain ==
    /\ pc = "idle"
    /\ earlier # NoneVal
    /\ \E show_animation \in BOOLEAN :
           Chat(earlier.val.args.message, earlier.val.args.pricing_method,
                earlier.val.args.model, earlier.val.args.models,
                earlier.val.args.quantity, show_animation)

\* the transport treats the POST as it treated the first: the same response, or
\* the same error without a response
SamePost(o) ==
    IF o.kind = "response"
    THEN earlier.val.response = Some(o)
    ELSE /\ earlier.val.response = NoneVal
         /\ earlier.val.error_msg = Some(o.exc.msg)

\* the transport treats the catalog GET as it treated the first: get_models
\* makes the same of it
SameGet(o) == earlier.val.models_response = Some(GetModels(o))

PostAnsweredAgain ==
    /\ pc = "posting"
    /\ earlier # NoneVal
    /\ \E o \in AgainPostOutcomes : SamePost(o) /\ PostCompletes(o)

GetAnsweredAgain ==
    /\ pc = "fetching"
    /\ earlier # NoneVal
    /\ \E o \in AgainGetOutcomes : SameGet(o) /\ GetCompletes(o)

AgainNext ==
    \/ FirstCall
    \/ FirstPostAnswered
    \/ FirstGetAnswered
    \/ FirstReturned
    \/ Animate
    \/ Join
    \/ LaterReturn
    \/ LaterGetModels
    \/ LaterGetModelsAnswered
    \/ LaterSearch
    \/ LaterSearchAnswered
    \/ CallAgain
    \/ PostAnsweredAgain
    \/ GetAnsweredAgain

\* the animation thread is scheduled as long as it is alive, and chat goes on
\* once thread.join() can return
AgainSpec ==
    AgainInit /\ [][AgainNext]_vars /\ WF_vars(Animate) /\ WF_vars(Join)

-----------------------------------------------------------------------------
(* Properties *)

\* the arguments of the call in progress, as the specification speaks of them
ListSupplied == args.some /\ args.val.models.some /\ args.val.models.val # <<>>

SingleSupplied == args.some /\ args.val.model.some /\ args.val.model.val # <<>>

QuantityOutOfRange ==
    args.some /\ args.val.quantity.some /\ args.val.quantity.val \notin 1..4

HasField(d, k) == k \in DOMAIN d

\* C1: a quantity outside 1..4 makes chat return a failure whose error contains
\* "Quantity must be between 1 and 4", with no request handed to the transport and
\* no animation started, whatever the other arguments; with a quantity in 1..4 or
\* none, the result never carries that message.
C1_QuantityValidation ==
    args.some =>
        IF QuantityOutOfRange
        THEN /\ pc = "returned"
             /\ result.some
             /\ result.val.success = FALSE
             /\ Contains(result.val.error, QuantityMessage)
             /\ network = <<>>
             /\ animation = NoneVal
             /\ raised = NoneVal
        ELSE (result.some /\ HasField(result.val, "error"))
                 => ~Contains(result.val.error, QuantityMessage)

\* C1 witness: a call with quantity 5, a model and a models list has been rejected
C1_Witness ==
    /\ pc = "returned"
    /\ QuantityOutOfRange
    /\ args.val.quantity.val = 5
    /\ ListSupplied
    /\ SingleSupplied
    /\ result.some

\* C3: a non-empty models list is sent verbatim as models, with no model and no
\* smart_llm_selector field, under both schema versions; the single model is used
\* only without such a list, the smart selector only when neither is given.
C3_ResolutionPriority ==
    payload.some =>
        LET p == payload.val
        IN  /\ network[1].json = p
            /\ ListSupplied =>
                  /\ DOMAIN p = {"message", "replace_failed_models", "models"}
                  /\ p.models = args.val.models.val
            /\ HasField(p, "model") => (~ListSupplied /\ SingleSupplied)
            /\ (HasField(p, "models") /\ ~ListSupplied) =>
                  (SingleSupplied /\ p.models = <<args.val.model.val>>)
            /\ HasField(p, "smart_llm_selector") => (~ListSupplied /\ ~SingleSupplied)

\* C3 witness: a payload was built from a two-element list and another single model
C3_Witness ==
    /\ payload.some
    /\ ListSupplied
    /\ SingleSupplied
    /\ Len(args.val.models.val) = 2
    /\ \A i \in 1..2 : args.val.models.val[i] # args.val.model.val

\* C4: a single model without a models list is sent as the scalar field model = x
\* (and no models field) under v0 and as models = [x] (and no model field) under v1.
C4_SchemaSwitch ==
    (payload.some /\ SingleSupplied /\ ~ListSupplied) =>
        LET p == payload.val
            x == args.val.model.val
        IN  /\ client.api_version = "v0" =>
                  (HasField(p, "model") /\ p.model = x /\ ~HasField(p, "models"))
            /\ client.api_version = "v1" =>
                  (HasField(p, "models") /\ p.models = <<x>> /\ ~HasField(p, "model"))

\* C4 witness: a v1 client built a payload from a single model and an empty list
C4_Witness ==
    /\ payload.some
    /\ client.api_version = "v1"
    /\ SingleSupplied
    /\ args.val.models = Some(<<>>)

\* C5: with neither model nor models, v1 sends smart_llm_selector = {quantity: q,
\* pricing_method} for q in 2..4 and {quantity: 1, pricing_method} for q absent or
\* 1; v0 sends the bare pricing_method and drops the quantity.
C5_SmartSelectorShape ==
    (payload.some /\ ~SingleSupplied /\ ~ListSupplied) =>
        LET p == payload.val
            q == args.val.quantity
            m == args.val.pricing_method
        IN  /\ HasField(p, "smart_llm_selector")
            /\ client.api_version = "v1" =>
                  p.smart_llm_selector =
                      [quantity       |-> IF q.some /\ q.val \in 2..4 THEN q.val ELSE 1,
                       pricing_method |-> m]
            /\ client.api_version = "v0" => p.smart_llm_selector = m

\* C5 witness: a v1 client built a selector payload for quantity 3
C5_Witness ==
    /\ payload.some
    /\ client.api_version = "v1"
    /\ ~SingleSupplied
    /\ ~ListSupplied
    /\ args.val.quantity.some
    /\ args.val.quantity.val = 3

\* what the transport did with the POST of the call in progress
PostUnanswered == pc = "returned" /\ network # <<>> /\ ~response.some

PostFailedWith(status_code) ==
    pc = "returned" /\ response.some /\ response.val.status_code = status_code

\* the error text of the response, <<>> when the body carries none
ResponseErrorText ==
    IF response.some /\ response.val.body.decodable
    THEN Get(response.val.body.json, "error", <<>>)
    ELSE <<>>

MarkerInResponse == Contains(ResponseErrorText, ModelNotFoundMarker)

IsPlainFailure(r) ==
    /\ DOMAIN r = {"success", "error"}
    /\ r.success = FALSE

\* C2: when the POST produces no HTTP response (connection error, timeout), chat
\* returns a failure that carries the transport's message and is not flagged
\* model_not_found, and no exception leaves chat.
C2_NoResponseIsFailure ==
    PostUnanswered =>
        /\ raised = NoneVal
        /\ result.some
        /\ IsPlainFailure(result.val)
        /\ result.val.error = error_msg.val

CatalogUnusable ==
    /\ models_response.some
    /\ Get(models_response.val, "success", FALSE) = TRUE
    /\ HasField(models_response.val, "data")
    /\ models_response.val.data.t # "dict"

\* the catalog GET failed, or the catalog has no chat entries
CatalogMissing ==
    /\ models_response.some
    /\ \/ Get(models_response.val, "success", FALSE) = FALSE
       \/ /\ HasField(models_response.val, "data")
          /\ models_response.val.data.t = "dict"
          /\ Get(models_response.val.data.v, "chat", <<>>) = <<>>

IsModelNotFoundResult ==
    /\ pc = "returned"
    /\ result.some
    /\ HasField(result.val, "model_not_found")
    /\ result.val.model_not_found = TRUE

\* C7: on a model-not-found failure of a call with a models list and no single
\* model, requested_model is the first identifier of the list, in list order, that
\* is a substring of the error text, and the first identifier of the list when
\* none is; for a one-element list it is that element.
C7_MultiModelAttribution ==
    (IsModelNotFoundResult /\ ListSupplied /\ ~SingleSupplied) =>
        LET l    == args.val.models.val
            hits == {i \in 1..Len(l) : Contains(result.val.error, l[i])}
        IN  /\ result.val.error = ResponseErrorText
            /\ result.val.requested_model =
                   IF Len(l) = 1 \/ hits = {} THEN l[1]
                   ELSE l[CHOOSE i \in hits : \A j \in hits : i <= j]

\* C7 witness: the error text names both identifiers of the list, the second one
\* first, and the failure is attributed to the first of the list
C7_Witness ==
    /\ IsModelNotFoundResult
    /\ ~SingleSupplied
    /\ args.val.models = Some(<<(<<"b", "d">>), (<<"g", "4">>)>>)
    /\ Contains(result.val.error, <<"g", "4", ",", " ", "b", "d">>)
    /\ result.val.requested_model = <<"b", "d">>

\* the exchange failed with an HTTP response in hand
PostFailed ==
    /\ pc = "returned"
    /\ response.some
    /\ (response.val.status_code >= 400 \/ ~response.val.body.decodable)

\* the conditions under which a failure is a model-not-found failure
ModelNotFoundConditions ==
    /\ response.some
    /\ response.val.status_code = 422
    /\ MarkerInResponse
    /\ (SingleSupplied \/ ListSupplied)

\* the outcome specified for a failure that is not a model-not-found failure
EndsAsPlainFailure ==
    /\ raised = NoneVal
    /\ result.some
    /\ IsPlainFailure(result.val)
    /\ result.val.error = error_msg.val
    /\ models_response = NoneVal
    /\ \A i \in 1..Len(network) : network[i].method # "GET"

\* C8: a failed exchange is classified model-not-found only if the status is 422,
\* the error text contains "Model not found" and a model or a models list was
\* supplied; every other failure of the exchange, with or without an HTTP
\* response, yields a plain failure without model_not_found and suggestions, and
\* no catalog GET.
C8_EveryOtherFailure ==
    /\ IsModelNotFoundResult => ModelNotFoundConditions
    /\ ((PostFailed \/ PostUnanswered) /\ ~ModelNotFoundConditions) => EndsAsPlainFailure

\* C8 for the exchanges that ended with an HTTP response: the part of the
\* statement the code keeps
C8_ClassificationOnlyIf ==
    /\ IsModelNotFoundResult => ModelNotFoundConditions
    /\ (PostFailed /\ ~ModelNotFoundConditions) => EndsAsPlainFailure

\* C8 witness: a 500 whose body says "Model not found", for a call with a model,
\* ended as a plain failure
C8_Witness ==
    /\ PostFailedWith(500)
    /\ MarkerInResponse
    /\ SingleSupplied
    /\ result.some
    /\ IsPlainFailure(result.val)

CompletionUrl == <<"https://api.straico.com", client.api_version, "prompt", "completion">>

CatalogUrl == <<"https://api.straico.com", "v1", "models">>

\* C9: a call that passes the quantity validation hands exactly one POST to the
\* completion endpoint, first, whatever the outcome; at most one catalog GET
\* follows, only after the POST failed with a 422 that names a missing model; a
\* successful call makes one request, a model-not-found failure two.
C9_NetworkCalls ==
    (args.some /\ ~QuantityOutOfRange) =>
        /\ Len(network) \in {1, 2}
        /\ network[1].method = "POST"
        /\ network[1].url = CompletionUrl
        /\ Len(network) = 2 =>
              /\ network[2].method = "GET"
              /\ network[2].url = CatalogUrl
              /\ response.some
              /\ response.val.status_code = 422
              /\ MarkerInResponse
              /\ (SingleSupplied \/ ListSupplied)
        /\ (pc = "fetching") = (Len(network) = 2 /\ ~models_response.some)
        /\ (pc = "returned" /\ response.some /\ response.val.status_code < 400
              /\ response.val.body.decodable) => Len(network) = 1
        /\ IsModelNotFoundResult => Len(network) = 2

\* C9 witness: a model-not-found failure was returned after a POST and a GET
C9_Witness ==
    /\ IsModelNotFoundResult
    /\ Len(network) = 2
    /\ network[1].method = "POST"
    /\ network[2].method = "GET"

\* C10: when the POST ends with a successful status and a decodable body, chat
\* returns that body as it is, also when its success flag is false, without
\* classifying it and without a catalog GET.
C10_SuccessVerbatim ==
    (pc = "returned" /\ response.some /\ response.val.status_code < 400
       /\ response.val.body.decodable) =>
        /\ result = Some(response.val.body.json)
        /\ raised = NoneVal
        /\ api_error = NoneVal
        /\ requested_model = NoneVal
        /\ models_response = NoneVal
        /\ Len(network) = 1

\* C10 witness: a 200 whose body says success = false and "Model not found" was
\* returned to a caller who named a model
C10_Witness ==
    /\ PostFailedWith(200)
    /\ response.val.body.decodable
    /\ Get(response.val.body.json, "success", TRUE) = FALSE
    /\ MarkerInResponse
    /\ SingleSupplied
    /\ result.some

-----------------------------------------------------------------------------
(* Properties of get_models and find_similar_models called directly *)

\* a direct get_models call has returned
GetModelsDelivered == pc = "delivered" /\ ~search.some

\* a direct find_similar_models call has returned or raised
SearchDelivered == pc = "delivered" /\ search.some

\* a direct find_similar_models call has returned a sequence
SearchReturned == SearchDelivered /\ ~outcome.val.raised

\* the catalog GET failed: no response, a status of 400 or more, or a body that
\* is not JSON
GetFailed ==
    \/ ~response.some
    \/ response.val.status_code >= 400
    \/ ~response.val.body.decodable

\* C11: get_models hands exactly one GET to the catalog endpoint and returns, never
\* raises: {data: [], success: false} when the GET fails (transport error, status
\* of 400 or more, undecodable body), else the body of this call's response, so
\* nothing of an earlier call is answered from a cache.
C11_GetModelsNeverRaises ==
    /\ pc = "get_models" =>
          /\ Len(network) = 1
          /\ network[1].method = "GET"
          /\ network[1].url = CatalogUrl
    /\ GetModelsDelivered =>
          /\ Len(network) = 1
          /\ network[1].method = "GET"
          /\ network[1].url = CatalogUrl
          /\ outcome.some
          /\ ~outcome.val.raised
          /\ outcome.val.value =
                 IF GetFailed THEN [data |-> JList(<<>>), success |-> FALSE]
                 ELSE response.val.body.json

\* C11 witness: the GET was answered with status 500 and a decodable catalog, and
\* get_models returned the empty catalog with the failure flag
C11_Witness ==
    /\ GetModelsDelivered
    /\ response.some
    /\ response.val.status_code = 500
    /\ response.val.body.decodable
    /\ outcome = Some(Returned([data |-> JList(<<>>), success |-> FALSE]))

\* the chat entries of the catalog the search got, <<>> when it got none
SearchedCatalog ==
    IF /\ models_response.some
       /\ Get(models_response.val, "success", FALSE) = TRUE
       /\ HasField(models_response.val, "data")
       /\ models_response.val.data.t = "dict"
    THEN Get(models_response.val.data.v, "chat", <<>>)
    ELSE <<>>

\* C12: a sequence returned by find_similar_models has at most max_suggestions
\* entries, for every query, catalog and max_suggestions.
C12_AtMostMaxSuggestions ==
    SearchReturned => Len(outcome.val.value) <= search.val.max_suggestions

\* C12 witness: both entries of the catalog resemble the query and one was
\* returned for max_suggestions = 1
C12_Witness ==
    /\ SearchReturned
    /\ search.val = [model_name |-> <<"g", "4">>, max_suggestions |-> 1]
    /\ Len(SearchedCatalog) = 2
    /\ EntryId(SearchedCatalog[1]) = <<"g", "4", "o">>
    /\ EntryId(SearchedCatalog[2]) = <<"o", "g", "4">>
    /\ Len(outcome.val.value) = 1

\* no identifier occurs twice in the sequence of catalog entries
DistinctIds(models) ==
    \A i, j \in 1..Len(models) : i # j => EntryId(models[i]) # EntryId(models[j])

\* C13: no model identifier occurs more than once in a sequence returned by
\* find_similar_models (directly or as chat's suggestions), also for a model matched
\* by both passes and for a catalog that lists an identifier twice.
C13_Deduplicated ==
    /\ SearchReturned => DistinctIds(outcome.val.value)
    /\ IsModelNotFoundResult => DistinctIds(result.val.suggestions)

\* C13 witness: the catalog lists "g4o" twice, the query "g4" resembles it and is a
\* substring of it, and it was returned once
C13_Witness ==
    /\ SearchReturned
    /\ search.val = [model_name |-> <<"g", "4">>, max_suggestions |-> DefaultMaxSuggestions]
    /\ Len(SearchedCatalog) = 2
    /\ EntryId(SearchedCatalog[1]) = <<"g", "4", "o">>
    /\ SearchedCatalog[2] = SearchedCatalog[1]
    /\ outcome.val.value = <<SearchedCatalog[1]>>

RepeatsPrevious ==
    /\ SearchDelivered
    /\ previous.some
    /\ previous.val.search = search.val
    /\ previous.val.models_response = models_response.val

C16_CliApiVersion ==
    [][pc = "main" =>
          /\ pc' = "idle"
          /\ client'.api_version =
                 IF cli.val.api_version_option.some
                 THEN cli.val.api_version_option.val
                 ELSE "v1"]_vars

-----------------------------------------------------------------------------
(* Further properties of chat *)

SelectionFields == {"models", "model", "smart_llm_selector"}

\* C17: every payload chat sends is the message, replace_failed_models = true and
\* exactly one of models, model, smart_llm_selector, whatever the arguments and
\* the schema version; the scalar model occurs only under v0, and under v0 the
\* selector is the bare pricing method, never the object.
C17_PayloadInvariant ==
    payload.some =>
        LET p == payload.val
        IN  /\ network[1].json = p
            /\ DOMAIN p \subseteq {"message", "replace_failed_models"} \cup SelectionFields
            /\ HasField(p, "message")
            /\ p.message = args.val.message
            /\ HasField(p, "replace_failed_models")
            /\ p.replace_failed_models = TRUE
            /\ Cardinality(DOMAIN p \cap SelectionFields) = 1
            /\ HasField(p, "model") => client.api_version = "v0"
            /\ (HasField(p, "smart_llm_selector") /\ client.api_version = "v0") =>
                  p.smart_llm_selector \in PricingMethods
            /\ (HasField(p, "smart_llm_selector") /\ client.api_version = "v1") =>
                  DOMAIN p.smart_llm_selector = {"quantity", "pricing_method"}

\* C17 witness: a v0 client was given a models list, a single model and a quantity
\* at once and sent a payload
C17_Witness ==
    /\ payload.some
    /\ client.api_version = "v0"
    /\ ListSupplied
    /\ SingleSupplied
    /\ args.val.quantity = Some(3)
    /\ Len(network) = 1

\* C18: when a non-empty models list and a single model are both supplied and the
\* service answers 422 "Model not found", the requested_model of the result is an
\* identifier of the models list that was sent, never the single model left out.
C18_AttributionFollowsPayload ==
    (IsModelNotFoundResult /\ ListSupplied /\ SingleSupplied) =>
        /\ HasField(payload.val, "models")
        /\ \E i \in 1..Len(payload.val.models) :
              result.val.requested_model = payload.val.models[i]

\* the body of the failed 422 response is not JSON
ErrorBodyUndecodable == response.some /\ ~response.val.body.decodable

\* the catalog GET failed and get_models returned its fallback
CatalogFetchFailed ==
    models_response = Some([data |-> JList(<<>>), success |-> FALSE])

\* C19 as stated: an error while decoding the error body of a failed 422 exchange
\* or while fetching the catalog for suggestions makes chat return a plain failure
\* and never reaches the caller.
C19_AnyErrorPlainFailure ==
    (PostFailedWith(422) /\ (ErrorBodyUndecodable \/ CatalogFetchFailed \/ CatalogUnusable)) =>
        /\ raised = NoneVal
        /\ result.some
        /\ IsPlainFailure(result.val)

\* C19 amended: no error of the classification of a failed 422 exchange reaches the
\* caller; an error body that does not decode and a suggestion lookup that raises
\* on the catalog answer make chat return the plain failure with the transport's
\* message, while a catalog GET that fails is absorbed by get_models and chat
\* returns the model-not-found failure with an empty suggestions list.
C19_ClassificationErrorsContained ==
    PostFailedWith(422) =>
        /\ raised = NoneVal
        /\ result.some
        /\ (ErrorBodyUndecodable \/ CatalogUnusable) =>
              /\ IsPlainFailure(result.val)
              /\ result.val.error = error_msg.val
        /\ CatalogFetchFailed =>
              /\ IsModelNotFoundResult
              /\ result.val.suggestions = <<>>

\* C19 witness: the suggestion lookup raised on a catalog answer whose data is a
\* list, and chat returned the plain failure
C19_Witness ==
    /\ PostFailedWith(422)
    /\ MarkerInResponse
    /\ CatalogUnusable
    /\ Len(network) = 2
    /\ raised = NoneVal
    /\ result = Some([success |-> FALSE, error |-> error_msg.val])

-----------------------------------------------------------------------------
(* The order of the suggestions *)

\* s without the later occurrences of its elements
RECURSIVE DistinctInOrder(_)
DistinctInOrder(s) ==
    IF s = <<>> THEN <<>>
    ELSE LET rest == DistinctInOrder(SubSeq(s, 1, Len(s) - 1))
             x    == s[Len(s)]
         IN  IF \E i \in 1..Len(rest) : rest[i] = x THEN rest ELSE Append(rest, x)

\* the similarity (step-1) matches of the search that has returned
SearchCloseMatches ==
    DistinctInOrder(CloseMatchesTable[<<search.val.model_name, SearchedCatalog,
                                        search.val.max_suggestions>>])

\* the place of an entry in the catalog
CatalogIndex(m) ==
    Minimum({i \in 1..Len(SearchedCatalog) : SearchedCatalog[i] = m})

SearchRatio(id) == Ratio(id, search.val.model_name)

\* r >= s for fractions
RatioAtLeast(r, s) == r.num * s.den >= s.num * r.den

\* the first place of an identifier in the catalog searched
IdIndex(id) ==
    Minimum({i \in 1..Len(SearchedCatalog) : EntryId(SearchedCatalog[i]) = id})

\* C21: the similarity pass keeps at most max_suggestions catalog identifiers whose
\* ratio to the query is at least 0.3, in descending order of the ratio, and
\* identifiers of equal ratio in the order of their places in the catalog.
C21_SimilarityPassOrder ==
    SearchReturned =>
        LET close == CloseMatchesTable[<<search.val.model_name, SearchedCatalog,
                                         search.val.max_suggestions>>]
        IN  /\ Len(close) <= search.val.max_suggestions
            /\ \A i \in 1..Len(close) :
                  /\ \E c \in 1..Len(SearchedCatalog) :
                        EntryId(SearchedCatalog[c]) = close[i]
                  /\ AtLeastCutoff(SearchRatio(close[i]))
            /\ \A i, j \in 1..Len(close) :
                  i < j =>
                     /\ RatioAtLeast(SearchRatio(close[i]), SearchRatio(close[j]))
                     /\ RatioAtLeast(SearchRatio(close[j]), SearchRatio(close[i])) =>
                           IdIndex(close[i]) <= IdIndex(close[j])

\* hay contains needle when the case of the letters is ignored
ContainsIgnoringCase(hay, needle) ==
    \E i \in 0..(Len(hay) - Len(needle)) :
        \A d \in 1..Len(needle) : LowerChar(hay[i + d]) = LowerChar(needle[d])

\* the catalog entry has the query in its identifier or in its display name
IsSubstringMatch(m) ==
    \/ ContainsIgnoringCase(EntryId(m), search.val.model_name)
    \/ ContainsIgnoringCase(EntryName(m), search.val.model_name)

\* C22: every catalog entry whose identifier or display name contains the query
\* as a case-insensitive substring has its identifier in the returned sequence,
\* unless the sequence holds max_suggestions entries.
C22_SubstringCompleteness ==
    (SearchReturned /\ Len(outcome.val.value) < search.val.max_suggestions) =>
        \A c \in 1..Len(SearchedCatalog) :
            IsSubstringMatch(SearchedCatalog[c]) =>
                \E i \in 1..Len(outcome.val.value) :
                    EntryId(outcome.val.value[i]) = EntryId(SearchedCatalog[c])

\* C22 witness: the query "G4" is in the display name "G4" of "zz" and, with the
\* case ignored, in the identifier "og4"; "zz", which no similarity finds, is in
\* the sequence returned
C22_Witness ==
    /\ SearchReturned
    /\ search.val = [model_name |-> <<"G", "4">>, max_suggestions |-> DefaultMaxSuggestions]
    /\ Len(SearchedCatalog) = 2
    /\ EntryId(SearchedCatalog[1]) = <<"o", "g", "4">>
    /\ EntryId(SearchedCatalog[2]) = <<"z", "z">>
    /\ outcome.val.value = SearchedCatalog

\* the call in progress is animated: show_animation is set and the quantity passes
Animated ==
    args.some /\ args.val.show_animation /\ ~QuantityOutOfRange

\* animation.stop() has cleared the running flag
Stopped == animation # NoneVal /\ ~animation.val.running

\* chat has returned or raised with the animation thread terminated
LeftWithThreadTerminated ==
    /\ pc = "returned"
    /\ animation # NoneVal
    /\ animation.val.thread = "terminated"

\* C23: a chat call with show_animation set and a valid quantity leaves chat, by a
\* returned result or by an exception, only with the animation stopped and its
\* thread terminated; once stop() has cleared the running flag the thread
\* terminates and chat returns; a call without show_animation or with a quantity
\* out of range never has an animation.
C23_AnimationLifecycle ==
    /\ []((pc = "returned" /\ Animated) => (Stopped /\ LeftWithThreadTerminated))
    /\ []((args.some /\ ~Animated) => animation = NoneVal)
    /\ (Stopped ~> LeftWithThreadTerminated)

\* C23 witness: the POST found no connection, an exception leaves the animated
\* call, and the thread has terminated
C23_Witness ==
    /\ LeftWithThreadTerminated
    /\ Stopped
    /\ Animated
    /\ raised # NoneVal

\* the call in progress is the one seen earlier, made again
MadeAgain == earlier # NoneVal /\ args.some

IsPrefix(s, u) == Len(s) <= Len(u) /\ s = SubSeq(u, 1, Len(s))

\* the call in progress has, so far, sent and returned what the earlier call did
SameAsEarlier ==
    /\ payload = earlier.val.payload
    /\ IsPrefix(network, earlier.val.network)
    /\ pc = "returned" =>
          /\ network = earlier.val.network
          /\ result = earlier.val.result
          /\ raised = earlier.val.raised

\* C24: a chat call and the same call with the other value of show_animation,
\* answered alike by the transport, send the same payload, hand the same requests
\* to the transport in the same order and return the same result.
C24_AnimationObservational ==
    (MadeAgain /\ args.val.show_animation # earlier.val.args.show_animation)
        => SameAsEarlier

\* C24 witness: a call without animation ended as a model-not-found failure after
\* two requests, and so has the same call with the animation
C24_Witness ==
    /\ MadeAgain
    /\ pc = "returned"
    /\ args.val.show_animation
    /\ ~earlier.val.args.show_animation
    /\ IsModelNotFoundResult
    /\ Len(network) = 2
    /\ animation # NoneVal

\* C25: no call changes the client's api_key, api_version, base_url and headers,
\* which stay those of its construction, or the models list of the caller; a chat
\* call made after other calls on the client, failed ones among them, sends and
\* returns what the same call sent and returned on the fresh client when the
\* transport answers alike.
C25_NoSharedState ==
    /\ [][/\ client' = client
          /\ (args.some /\ args'.some) => args'.val.models = args.val.models]_vars
    /\ [](client = NewClient(client.api_key, client.api_version))
    /\ [](MadeAgain => SameAsEarlier)

\* C25 witness: on a v0 client a chat call failed after its catalog lookup, and
\* the same call made again on that client has failed in the same way
C25_Witness ==
    /\ MadeAgain
    /\ pc = "returned"
    /\ client.api_version = "v0"
    /\ args = Some(earlier.val.args)
    /\ result.some
    /\ result.val.success = FALSE
    /\ Len(network) = 2

====
